---------------------------- MODULE Spec2Model ----------------------------
(***************************************************************************)
(* The carecloud page script: two loaders (articles, videos), the two      *)
(* renderers, the two category filters and the video modal, in its two     *)
(* variants:                                                               *)
(*   "plain"      src/web/script.js                                        *)
(*   "defensive"  src/unnamed/part_000                                     *)
(*                                                                         *)
(* Encoding of JavaScript values                                           *)
(*   - an object is a record; an absent property is a name missing from    *)
(*     the record's DOMAIN (Has);                                          *)
(*   - a category string is a sequence of one-character strings, so that   *)
(*     toLowerCase is computed character by character;                     *)
(*   - a video identifier and the player source are TLA+ strings, built    *)
(*     with \o as the template literal builds them;                        *)
(*   - the value undefined held by articlesData / videosData is the        *)
(*     one-element sequence Undefined, which no array of items equals;     *)
(*   - Cyrillic literals of the source are transliterated.                 *)
(* part_000 marks its comments with #; they are read as the comments they  *)
(* are meant to be.                                                        *)
(* The statistics panel (loadUserStats / renderStats) writes only the      *)
(* stats container, which nothing else reads; it is left out.              *)
(***************************************************************************)
EXTENDS Integers, Sequences, FiniteSets, TLC

VARIABLES
    variant,        \* which of the two source files runs
    ready,          \* DOMContentLoaded has run: listeners are installed
    pcA, pcV,       \* position of loadArticles / loadVideos
    statusA, statusV, \* the local 'response' of each loader, while it is in scope
    articlesData, videosData,   \* the module-level arrays
    articlesHtml, videosHtml,   \* innerHTML of the two containers
    activeA, activeV,           \* data-filter of the button carrying 'active'
    iframeSrc,      \* videoIframe.src
    modalClasses,   \* videoModal.classList
    last            \* the handler that ran last, and what it did

vars == <<variant, ready, pcA, pcV, statusA, statusV, articlesData, videosData,
          articlesHtml, videosHtml, activeA, activeV, iframeSrc, modalClasses,
          last>>

(***************************************************************************)
(* Bounds                                                                  *)
(***************************************************************************)
MaxArticles == 1

MaxVideos == 2

(***************************************************************************)
(* Values                                                                  *)
(***************************************************************************)
Variants == {"plain", "defensive"}

Undefined == <<[undefined |-> TRUE]>>

Has(obj, key) == key \in DOMAIN obj

All == <<"a", "l", "l">>

UndefinedText == <<"u", "n", "d", "e", "f", "i", "n", "e", "d">>

Vse == <<"v", "s", "e">>

\* Values of the filter buttons' data-filter / data-filter-video attributes.
FilterValues == {All, <<"s">>, <<"S">>}

\* Category strings found in the JSON document.
ItemCategories == {<<"s">>, <<"S">>}

UpperLetters == <<"A", "B", "C", "D", "E", "F", "G", "H", "I", "J", "K", "L", "M",
                  "N", "O", "P", "Q", "R", "S", "T", "U", "V", "W", "X", "Y", "Z">>

LowerLetters == <<"a", "b", "c", "d", "e", "f", "g", "h", "i", "j", "k", "l", "m",
                  "n", "o", "p", "q", "r", "s", "t", "u", "v", "w", "x", "y", "z">>

LowerChar(ch) ==
    IF \E i \in 1..Len(UpperLetters) : UpperLetters[i] = ch
    THEN LowerLetters[CHOOSE i \in 1..Len(UpperLetters) : UpperLetters[i] = ch]
    ELSE ch

\* String.prototype.toLowerCase
ToLowerCase(s) == [i \in 1..Len(s) |-> LowerChar(s[i])]

\* One article of the document: id is its position, category is optional.
ArticleShapes(i) ==
    {[id |-> i]} \cup {[id |-> i, category |-> c] : c \in ItemCategories}

\* One video of the document: category, youtubeId and tags are optional.
VideoShapes(i) ==
    { [title |-> i, category |-> <<"s">>, youtubeId |-> "abc123", tags |-> <<"t">>],
      [title |-> i, category |-> <<"S">>, youtubeId |-> "xyz789", tags |-> <<>>],
      [title |-> i, category |-> <<"s">>, youtubeId |-> "", tags |-> <<"t">>],
      [title |-> i] }

ItemShapes(key, i) == IF key = "articles" THEN ArticleShapes(i) ELSE VideoShapes(i)

\* The arrays of at most n items found under a key of the document.
RECURSIVE ArraysOf(_, _)
ArraysOf(key, n) ==
    IF n = 0 THEN {<<>>}
    ELSE LET shorter == ArraysOf(key, n - 1)
         IN  shorter \cup
             {Append(a, x) : a \in {b \in shorter : Len(b) = n - 1},
                             x \in ItemShapes(key, n)}

ArticleArrays == ArraysOf("articles", MaxArticles)

VideoArrays == ArraysOf("videos", MaxVideos)


(***************************************************************************)
(* The response of fetch('articles/data.json') and its body.  loadArticles *)
(* reads only data.articles and loadVideos only data.videos, so a body is  *)
(* described by the key its reader looks at: present with an array, or     *)
(* absent.  A body that is not JSON makes response.json() reject.          *)
(***************************************************************************)
NotJson == [json |-> FALSE]

ArticleBodies ==
    {NotJson} \cup {[json |-> TRUE, data |-> [videos |-> <<>>]]}
              \cup {[json |-> TRUE, data |-> [articles |-> a, videos |-> <<>>]] :
                        a \in ArticleArrays}

VideoBodies ==
    {NotJson} \cup {[json |-> TRUE, data |-> [articles |-> <<>>]]}
              \cup {[json |-> TRUE, data |-> [articles |-> <<>>, videos |-> v]] :
                        v \in VideoArrays}

\* fetch settles: the promise rejects (network error), or resolves with a
\* response whose status is a success (response.ok) or not.
FetchOutcomes == {"rejected", "ok", "notok"}

(***************************************************************************)
(* Container contents                                                      *)
(***************************************************************************)
InitialHtml == [kind |-> "initial"]

ArticlesErrorHtml ==
    [kind |-> "error",
     text |-> IF variant = "plain" THEN "Oshibka zagruzki statej"
                                   ELSE "Ne udalos zagruzit stati"]

VideosErrorHtml ==
    [kind |-> "error",
     text |-> IF variant = "plain" THEN "Oshibka zagruzki video"
                                   ELSE "Ne udalos zagruzit video"]

NoArticlesHtml == [kind |-> "placeholder", text |-> "Net statej"]

NoVideosHtml == [kind |-> "placeholder", text |-> "Net video"]

\* The result of a call that may throw: the value it produced, or threw.
Thrown == [threw |-> TRUE]

Returned(html) == [threw |-> FALSE, html |-> html]

(***************************************************************************)
(* Renderers                                                               *)
(***************************************************************************)
\* ${x.field} in the plain variant: an absent field prints as "undefined".
CategoryText(item) ==
    IF variant = "plain"
    THEN IF Has(item, "category") THEN item.category ELSE UndefinedText
    ELSE IF Has(item, "category") /\ item.category # <<>> THEN item.category ELSE Vse

ArticleCard(article) ==
    [card |-> "article", category |-> CategoryText(article), onclick |-> article.id]

\* The argument of the inline openVideo('...') handler of a video card.
OnclickId(video) ==
    IF variant = "plain"
    THEN IF Has(video, "youtubeId") THEN video.youtubeId ELSE "undefined"
    ELSE IF Has(video, "youtubeId") /\ video.youtubeId # "" THEN video.youtubeId ELSE ""

VideoCard(video) ==
    [card |-> "video", title |-> video.title, category |-> CategoryText(video),
     onclick |-> OnclickId(video),
     tags |-> IF Has(video, "tags") THEN video.tags ELSE <<>>]

\* renderArticles(articles): the container's new innerHTML, or the throw of
\* undefined.length in the plain variant.
RenderArticles(articles) ==
    IF articles = Undefined
    THEN IF variant = "plain" THEN Thrown ELSE Returned(NoArticlesHtml)
    ELSE IF Len(articles) = 0
         THEN Returned(NoArticlesHtml)
         ELSE Returned([kind |-> "cards",
                        cards |-> [i \in 1..Len(articles) |-> ArticleCard(articles[i])]])

\* renderVideos(videos): as renderArticles; video.tags.map throws in the plain
\* variant when a video has no tags, before innerHTML is assigned.
RenderVideos(videos) ==
    IF videos = Undefined
    THEN IF variant = "plain" THEN Thrown ELSE Returned(NoVideosHtml)
    ELSE IF Len(videos) = 0
         THEN Returned(NoVideosHtml)
         ELSE IF variant = "plain" /\ \E i \in 1..Len(videos) : ~Has(videos[i], "tags")
              THEN Thrown
              ELSE Returned([kind |-> "cards",
                             cards |-> [i \in 1..Len(videos) |-> VideoCard(videos[i])]])

(***************************************************************************)
(* Filters                                                                 *)
(***************************************************************************)
\* The predicate handed to Array.prototype.filter.
CategoryMatches(item, category) ==
    IF variant = "plain"
    THEN Has(item, "category") /\ item.category = category
    ELSE ToLowerCase(IF Has(item, "category") THEN item.category ELSE <<>>) = category

FilterItems(items, category) ==
    LET Keep(item) == CategoryMatches(item, category)
    IN  SelectSeq(items, Keep)

\* filterArticles(category): what the call does to the container.  A result
\* without html leaves the container as it was.
FilterArticles(category) ==
    IF variant = "defensive" /\ (articlesData = Undefined \/ Len(articlesData) = 0)
    THEN [threw |-> FALSE]
    ELSE IF category = All
         THEN RenderArticles(articlesData)
         ELSE IF articlesData = Undefined
              THEN Thrown
              ELSE RenderArticles(FilterItems(articlesData, category))

FilterVideos(category) ==
    IF variant = "defensive" /\ (videosData = Undefined \/ Len(videosData) = 0)
    THEN [threw |-> FALSE]
    ELSE IF category = All
         THEN RenderVideos(videosData)
         ELSE IF videosData = Undefined
              THEN Thrown
              ELSE RenderVideos(FilterItems(videosData, category))

\* The container after a call with the given result.
HtmlAfter(result, html) == IF Has(result, "html") THEN result.html ELSE html

(***************************************************************************)
(* Modal                                                                   *)
(***************************************************************************)
EmbedUrlWithoutAutoplay(youtubeId) == "https://www.youtube.com/embed/" \o youtubeId

EmbedUrl(youtubeId) == "https://www.youtube.com/embed/" \o youtubeId \o "?autoplay=1"

\* openVideo(youtubeId) applied to the modal m = [src, classes].
openVideo(m, youtubeId) ==
    IF variant = "defensive" /\ youtubeId = ""
    THEN [src |-> m.src, classes |-> m.classes, alerted |-> TRUE]
    ELSE [src |-> EmbedUrl(youtubeId), classes |-> m.classes \cup {"active"},
          alerted |-> FALSE]

closeModalToggling(m) ==
    [src |-> "",
     classes |-> IF "active" \in m.classes THEN m.classes \ {"active"}
                                           ELSE m.classes \cup {"active"}]

\* closeModal() applied to the modal m = [src, classes].
closeModal(m) == [src |-> "", classes |-> m.classes \ {"active"}]

Modal == [src |-> iframeSrc, classes |-> modalClasses]

(***************************************************************************)
(* What the last handler did: its name, its input (the identifier handed   *)
(* to openVideo, the outcome of the fetch that settled, the element        *)
(* clicked), whether it called alert, whether it ended with an uncaught    *)
(* exception, and whether the modal was open when it started.              *)
(***************************************************************************)
Last(op, arg, alerted, threw) ==
    [op |-> op, arg |-> arg, alerted |-> alerted, threw |-> threw,
     wasOpen |-> "active" \in modalClasses]

Init ==
    /\ variant \in Variants
    /\ ready = FALSE
    /\ pcA = "start" /\ pcV = "start"
    /\ statusA = "none" /\ statusV = "none"
    /\ articlesData = <<>> /\ videosData = <<>>
    /\ articlesHtml = InitialHtml /\ videosHtml = InitialHtml
    /\ activeA = <<>> /\ activeV = <<>>    \* no button marked by a click yet
    /\ iframeSrc = ""
    /\ modalClasses = {"modal"}
    /\ last = [op |-> "script", arg |-> "", alerted |-> FALSE, threw |-> FALSE,
               wasOpen |-> FALSE]

\* The DOMContentLoaded listener: both loaders run up to their await of
\* fetch, and the click listeners are installed.
DOMContentLoaded ==
    /\ ~ready
    /\ ready' = TRUE
    /\ pcA' = "fetch" /\ pcV' = "fetch"
    /\ last' = Last("DOMContentLoaded", "", FALSE, FALSE)
    /\ UNCHANGED <<variant, statusA, statusV, articlesData, videosData, articlesHtml,
                   videosHtml, activeA, activeV, iframeSrc, modalClasses>>

(***************************************************************************)
(* loadArticles                                                            *)
(***************************************************************************)
\* await fetch(...) settles; the code runs on to await response.json(), or to
\* the catch block.
ArticlesFetchSettled ==
    /\ pcA = "fetch"
    /\ \E outcome \in FetchOutcomes :
         /\ IF outcome = "rejected" \/ (variant = "defensive" /\ outcome = "notok")
            THEN articlesHtml' = ArticlesErrorHtml /\ pcA' = "failed" /\ statusA' = "none"
            ELSE articlesHtml' = articlesHtml /\ pcA' = "json" /\ statusA' = outcome
         /\ last' = Last("loadArticles", outcome, FALSE, FALSE)
    /\ UNCHANGED <<variant, ready, pcV, statusV, articlesData, videosData, videosHtml,
                   activeA, activeV, iframeSrc, modalClasses>>

\* ArticlesJsonSettled, were it to render the view of the active filter.
ArticlesJsonSettledFiltering ==
    /\ pcA = "json"
    /\ \E body \in ArticleBodies :
         IF ~body.json
         THEN /\ articlesData' = articlesData
              /\ articlesHtml' = ArticlesErrorHtml
              /\ pcA' = "failed"
              /\ last' = Last("loadArticles", "rejected", FALSE, FALSE)
         ELSE LET value  == IF Has(body.data, "articles") THEN body.data.articles
                                                          ELSE Undefined
                  stored == IF variant = "defensive" /\ value = Undefined THEN <<>>
                                                                          ELSE value
                  result == IF activeA \in {<<>>, All} \/ stored = Undefined
                            THEN RenderArticles(stored)
                            ELSE RenderArticles(FilterItems(stored, activeA))
              IN  /\ articlesData' = stored
                  /\ IF result.threw
                     THEN articlesHtml' = ArticlesErrorHtml /\ pcA' = "failed"
                     ELSE articlesHtml' = result.html /\ pcA' = "done"
                  /\ last' = Last("loadArticles", "parsed", FALSE, FALSE)
    /\ statusA' = "none"
    /\ UNCHANGED <<variant, ready, pcV, statusV, videosData, videosHtml,
                   activeA, activeV, iframeSrc, modalClasses>>

\* await response.json() settles; the code runs to the end of the function.
ArticlesJsonSettled ==
    /\ pcA = "json"
    /\ \E body \in ArticleBodies :
         IF ~body.json
         THEN /\ articlesData' = articlesData
              /\ articlesHtml' = ArticlesErrorHtml
              /\ pcA' = "failed"
              /\ last' = Last("loadArticles", "rejected", FALSE, FALSE)
         ELSE LET value  == IF Has(body.data, "articles") THEN body.data.articles
                                                          ELSE Undefined
                  stored == IF variant = "defensive" /\ value = Undefined THEN <<>>
                                                                          ELSE value
                  result == RenderArticles(stored)
              IN  /\ articlesData' = stored
                  /\ IF result.threw
                     THEN articlesHtml' = ArticlesErrorHtml /\ pcA' = "failed"
                     ELSE articlesHtml' = result.html /\ pcA' = "done"
                  /\ last' = Last("loadArticles", "parsed", FALSE, FALSE)
    /\ statusA' = "none"
    /\ UNCHANGED <<variant, ready, pcV, statusV, videosData, videosHtml,
                   activeA, activeV, iframeSrc, modalClasses>>

(***************************************************************************)
(* loadVideos                                                              *)
(***************************************************************************)
VideosFetchSettled ==
    /\ pcV = "fetch"
    /\ \E outcome \in FetchOutcomes :
         /\ IF outcome = "rejected" \/ (variant = "defensive" /\ outcome = "notok")
            THEN videosHtml' = VideosErrorHtml /\ pcV' = "failed" /\ statusV' = "none"
            ELSE videosHtml' = videosHtml /\ pcV' = "json" /\ statusV' = outcome
         /\ last' = Last("loadVideos", outcome, FALSE, FALSE)
    /\ UNCHANGED <<variant, ready, pcA, statusA, articlesData, videosData, articlesHtml,
                   activeA, activeV, iframeSrc, modalClasses>>

VideosJsonSettled ==
    /\ pcV = "json"
    /\ \E body \in VideoBodies :
         IF ~body.json
         THEN /\ videosData' = videosData
              /\ videosHtml' = VideosErrorHtml
              /\ pcV' = "failed"
              /\ last' = Last("loadVideos", "rejected", FALSE, FALSE)
         ELSE LET value  == IF Has(body.data, "videos") THEN body.data.videos
                                                        ELSE Undefined
                  stored == IF variant = "defensive" /\ value = Undefined THEN <<>>
                                                                          ELSE value
                  result == RenderVideos(stored)
              IN  /\ videosData' = stored
                  /\ IF result.threw
                     THEN videosHtml' = VideosErrorHtml /\ pcV' = "failed"
                     ELSE videosHtml' = result.html /\ pcV' = "done"
                  /\ last' = Last("loadVideos", "parsed", FALSE, FALSE)
    /\ statusV' = "none"
    /\ UNCHANGED <<variant, ready, pcA, statusA, articlesData, articlesHtml,
                   activeA, activeV, iframeSrc, modalClasses>>

(***************************************************************************)
(* Click listeners                                                         *)
(***************************************************************************)
\* A [data-filter] button: move 'active' to it, then filterArticles.
ClickArticleFilter ==
    /\ ready
    /\ \E category \in FilterValues :
         LET result == FilterArticles(category)
         IN  /\ activeA' = category
             /\ articlesHtml' = HtmlAfter(result, articlesHtml)
             /\ last' = Last("filterArticles", "", FALSE, result.threw)
    /\ UNCHANGED <<variant, ready, pcA, pcV, statusA, statusV, articlesData, videosData,
                   videosHtml, activeV, iframeSrc, modalClasses>>

\* A [data-filter-video] button: move 'active' to it, then filterVideos.
ClickVideoFilter ==
    /\ ready
    /\ \E category \in FilterValues :
         LET result == FilterVideos(category)
         IN  /\ activeV' = category
             /\ videosHtml' = HtmlAfter(result, videosHtml)
             /\ last' = Last("filterVideos", "", FALSE, result.threw)
    /\ UNCHANGED <<variant, ready, pcA, pcV, statusA, statusV, articlesData, videosData,
                   articlesHtml, activeA, iframeSrc, modalClasses>>

\* The link of a displayed article card: openArticle(id).
ClickArticleLink ==
    /\ articlesHtml.kind = "cards"
    /\ \E i \in 1..Len(articlesHtml.cards) :
         LET id    == articlesHtml.cards[i].onclick
             found == \E k \in 1..Len(articlesData) : articlesData[k].id = id
         IN  last' = Last("openArticle", "", variant = "defensive" /\ found, FALSE)
    /\ UNCHANGED <<variant, ready, pcA, pcV, statusA, statusV, articlesData, videosData,
                   articlesHtml, videosHtml, activeA, activeV, iframeSrc, modalClasses>>

\* The thumbnail of a displayed video card: openVideo('<id>').
ClickThumbnail ==
    /\ videosHtml.kind = "cards"
    /\ \E i \in 1..Len(videosHtml.cards) :
         LET id == videosHtml.cards[i].onclick
             m  == openVideo(Modal, id)
         IN  /\ iframeSrc' = m.src
             /\ modalClasses' = m.classes
             /\ last' = Last("openVideo", id, m.alerted, FALSE)
    /\ UNCHANGED <<variant, ready, pcA, pcV, statusA, statusV, articlesData, videosData,
                   articlesHtml, videosHtml, activeA, activeV>>

\* The .modal-close control: closeModal.
ClickClose ==
    /\ ready
    /\ iframeSrc' = closeModal(Modal).src
    /\ modalClasses' = closeModal(Modal).classes
    /\ last' = Last("closeModal", "", FALSE, FALSE)
    /\ UNCHANGED <<variant, ready, pcA, pcV, statusA, statusV, articlesData, videosData,
                   articlesHtml, videosHtml, activeA, activeV>>

\* The window listener, for a click whose target is the modal element itself
\* (the backdrop): closeModal.
ClickBackdrop ==
    /\ ready
    /\ "modal" \in modalClasses
    /\ iframeSrc' = closeModal(Modal).src
    /\ modalClasses' = closeModal(Modal).classes
    /\ last' = Last("closeModal", "backdrop", FALSE, FALSE)
    /\ UNCHANGED <<variant, ready, pcA, pcV, statusA, statusV, articlesData, videosData,
                   articlesHtml, videosHtml, activeA, activeV>>

Next ==
    \/ DOMContentLoaded
    \/ ArticlesFetchSettled
    \/ ArticlesJsonSettled
    \/ VideosFetchSettled
    \/ VideosJsonSettled
    \/ ClickArticleFilter
    \/ ClickVideoFilter
    \/ ClickArticleLink
    \/ ClickThumbnail
    \/ ClickClose
    \/ ClickBackdrop

Spec == Init /\ [][Next]_vars

(***************************************************************************)
(* Vocabulary of the properties                                            *)
(***************************************************************************)
Finished == {"done", "failed"}

\* The container shows one card per item, in order, or the placeholder.
ShowsArticles(html, items) ==
    IF Len(items) = 0
    THEN html = NoArticlesHtml
    ELSE /\ html.kind = "cards"
         /\ Len(html.cards) = Len(items)
         /\ \A i \in 1..Len(items) : html.cards[i].onclick = items[i].id

ShowsVideos(html, items) ==
    IF Len(items) = 0
    THEN html = NoVideosHtml
    ELSE /\ html.kind = "cards"
         /\ Len(html.cards) = Len(items)
         /\ \A i \in 1..Len(items) : html.cards[i].title = items[i].title

CategoryOf(item) == IF Has(item, "category") THEN item.category ELSE <<>>

\* The match the specification describes: exact in the plain variant,
\* letter case ignored on both sides in the defensive one.
SpecifiedMatch(item, category) ==
    IF variant = "plain"
    THEN Has(item, "category") /\ item.category = category
    ELSE ToLowerCase(CategoryOf(item)) = ToLowerCase(category)

SpecifiedSelection(items, category) ==
    LET Keep(item) == SpecifiedMatch(item, category)
    IN  IF category = All THEN items ELSE SelectSeq(items, Keep)

(***************************************************************************)
(* C1: when a loader's fetch resolves with a non-success status, the       *)
(* loader ends with its own container showing the error message, and no    *)
(* step of a loader changes the other loader's container or array.         *)
(***************************************************************************)
C1_NonSuccessShowsError ==
    [][ /\ ( /\ \/ pcA = "json" /\ statusA = "notok"
                \/ pcA = "fetch" /\ last'.op = "loadArticles" /\ last'.arg = "notok"
             /\ pcA' \in Finished )
           => articlesHtml' = ArticlesErrorHtml
        /\ ( /\ \/ pcV = "json" /\ statusV = "notok"
                \/ pcV = "fetch" /\ last'.op = "loadVideos" /\ last'.arg = "notok"
             /\ pcV' \in Finished )
           => videosHtml' = VideosErrorHtml
        /\ last'.op = "loadArticles"
           => videosHtml' = videosHtml /\ videosData' = videosData
        /\ last'.op = "loadVideos"
           => articlesHtml' = articlesHtml /\ articlesData' = articlesData
      ]_vars

(***************************************************************************)
(* C2: once the data has loaded, a filter call leaves the container        *)
(* showing exactly the items the category selects, in the array's order:   *)
(* all of them for "all", the matching ones otherwise, the placeholder     *)
(* when none matches.                                                      *)
(***************************************************************************)
C2_FilterShowsSelection ==
    /\ (last.op = "filterArticles" /\ pcA = "done")
       => /\ ~last.threw
          /\ ShowsArticles(articlesHtml, SpecifiedSelection(articlesData, activeA))
    /\ (last.op = "filterVideos" /\ pcV = "done")
       => /\ ~last.threw
          /\ ShowsVideos(videosHtml, SpecifiedSelection(videosData, activeV))

(***************************************************************************)
(* C3: in the defensive variant, after a filter call with a category other *)
(* than "all" on loaded items, an item is displayed if and only if its     *)
(* category equals the target with letter case ignored on both sides.      *)
(***************************************************************************)
C3_CaseInsensitiveMatch ==
    /\ (variant = "defensive" /\ last.op = "filterArticles" /\ activeA # All)
       => \A k \in 1..Len(articlesData) :
             ( /\ articlesHtml.kind = "cards"
               /\ \E i \in 1..Len(articlesHtml.cards) :
                     articlesHtml.cards[i].onclick = articlesData[k].id )
             <=> ToLowerCase(CategoryOf(articlesData[k])) = ToLowerCase(activeA)
    /\ (variant = "defensive" /\ last.op = "filterVideos" /\ activeV # All)
       => \A k \in 1..Len(videosData) :
             ( /\ videosHtml.kind = "cards"
               /\ \E i \in 1..Len(videosHtml.cards) :
                     videosHtml.cards[i].title = videosData[k].title )
             <=> ToLowerCase(CategoryOf(videosData[k])) = ToLowerCase(activeV)

(***************************************************************************)
(* C4: openVideo with the empty identifier shows a notice and changes      *)
(* neither the modal's class list nor the player source.                   *)
(***************************************************************************)
C4_EmptyIdNoTransition ==
    [][ (last'.op = "openVideo" /\ last'.arg = "")
        => /\ last'.alerted
           /\ iframeSrc' = iframeSrc
           /\ modalClasses' = modalClasses
      ]_vars

(***************************************************************************)
(* C5: a filter call made while the data has not loaded (the array is      *)
(* still empty, also after a failed fetch) leaves the container's content  *)
(* as it was and raises no error.                                          *)
(***************************************************************************)
C5_FilterBeforeLoadNoEffect ==
    [][ /\ (last'.op = "filterArticles" /\ pcA # "done" /\ articlesData = <<>>)
           => articlesHtml' = articlesHtml /\ ~last'.threw
        /\ (last'.op = "filterVideos" /\ pcV # "done" /\ videosData = <<>>)
           => videosHtml' = videosHtml /\ ~last'.threw
      ]_vars

(***************************************************************************)
(* C6: an in-memory array changes only in the step of its own loader that  *)
(* completes the load successfully (which happens at most once: the loader *)
(* is then done); every other step, a load ending with the error message   *)
(* included, leaves it as it was.                                          *)
(***************************************************************************)
C6_ArraysChangeOnlyOnSuccess ==
    [][ /\ articlesData' # articlesData
           => /\ last'.op = "loadArticles"
              /\ pcA = "json" /\ pcA' = "done"
              /\ articlesHtml'.kind # "error"
        /\ videosData' # videosData
           => /\ last'.op = "loadVideos"
              /\ pcV = "json" /\ pcV' = "done"
              /\ videosHtml'.kind # "error"
      ]_vars

(***************************************************************************)
(* C7: after closeModal, from the close control or from a click on the     *)
(* backdrop, the player source is empty and the modal is not marked        *)
(* active, whatever the state before; closing the current modal twice      *)
(* gives what closing it once gives.                                       *)
(***************************************************************************)
C7_CloseModalClears ==
    /\ last.op = "closeModal" => (iframeSrc = "" /\ "active" \notin modalClasses)
    /\ closeModal(closeModal(Modal)) = closeModal(Modal)
    /\ closeModal(Modal).src = "" /\ "active" \notin closeModal(Modal).classes

C7_Witness ==
    /\ last.op = "closeModal" /\ last.arg = "backdrop" /\ last.wasOpen
    /\ iframeSrc = "" /\ modalClasses = {"modal"}

(***************************************************************************)
(* C8: after openVideo with a non-empty identifier, from any modal state,  *)
(* the player source is https://www.youtube.com/embed/{id}?autoplay=1 and  *)
(* the modal is marked active.                                             *)
(***************************************************************************)
C8_OpenVideoSetsSource ==
    (last.op = "openVideo" /\ last.arg # "")
    => /\ iframeSrc = "https://www.youtube.com/embed/" \o last.arg \o "?autoplay=1"
       /\ last.arg = "abc123"
          => iframeSrc = "https://www.youtube.com/embed/abc123?autoplay=1"
       /\ "active" \in modalClasses
       /\ ~last.alerted

C8_Witness ==
    /\ last.op = "openVideo" /\ last.arg = "abc123" /\ last.wasOpen
    /\ \E i \in 1..Len(videosHtml.cards) : videosHtml.cards[i].onclick = "xyz789"
    /\ iframeSrc = "https://www.youtube.com/embed/abc123?autoplay=1"

(***************************************************************************)
(* C9: whenever a loader hands its array to renderArticles / renderVideos, *)
(* the container then shows exactly one card per item, in order, or the    *)
(* single placeholder when the array is empty.                             *)
(***************************************************************************)
C9_OneCardPerItem ==
    [][ /\ (last'.op = "loadArticles" /\ last'.arg = "parsed"
                /\ articlesData' # Undefined)
           => ShowsArticles(articlesHtml', articlesData')
        /\ (last'.op = "loadVideos" /\ last'.arg = "parsed"
                /\ videosData' # Undefined)
           => ShowsVideos(videosHtml', videosData')
      ]_vars

(***************************************************************************)
(* C10: the step that completes a load shows every fetched item, whatever  *)
(* filter button is marked active at that moment.                          *)
(***************************************************************************)
C10_LoadShowsAll ==
    [][ /\ (pcA # "done" /\ pcA' = "done")
           => ShowsArticles(articlesHtml', articlesData')
        /\ (pcV # "done" /\ pcV' = "done")
           => ShowsVideos(videosHtml', videosData')
      ]_vars

C10_Witness ==
    /\ last.op = "loadArticles" /\ pcA = "done"
    /\ activeA \notin {<<>>, All}
    /\ \E k \in 1..Len(articlesData) : ~CategoryMatches(articlesData[k], activeA)
    /\ articlesHtml.kind = "cards"

=============================================================================
